---- MODULE Spec2Model ----
(***************************************************************************)
(* Model of script.py: assignment of coordinates to a table of bird        *)
(* sightings from a master table of coordinates.                           *)
(*                                                                         *)
(* A text value (a cell, a header, a normalized name) is a sequence of     *)
(* one-character strings.  A missing cell (pandas NaN) is the value NaN.   *)
(* A float is an integer number of 1e-7 degrees; a float column cell is    *)
(* <<>> (NaN) or <<v>>.                                                    *)
(***************************************************************************)
EXTENDS Integers, Sequences, FiniteSets, TLC

VARIABLES
    tabla,          \* the observation CSV: [cols, rows]
    maestro,        \* the master CSV: [cols, rows]
    seed,           \* --seed
    pc,             \* position of main
    df,             \* main's df
    species_col,    \* main's species_col
    master,         \* main's master (the index load_master returns)
    result,         \* main's result (the table assign_coords returns)
    found,          \* the find_col calls made so far: [cols, candidates, ret]
    draws,          \* the indices rng.integers returned so far: [row, K, choice]
    no_match,       \* main's no_match
    written,        \* the files this execution has written
    out_file,       \* content of out_path
    no_match_file,  \* content of no_match_path
    run,            \* number of the execution (1 or 2)
    first_out,      \* content of out_path left by the first execution
    raw,            \* a raw species name handed to normalize_species
    norm1,          \* normalize_species(raw)
    norm2,          \* normalize_species(norm1)
    npc             \* position of the normalizer run

vars == <<tabla, maestro, seed, pc, df, species_col, master, result, found, draws,
          no_match, written, out_file, no_match_file, run, first_out,
          raw, norm1, norm2, npc>>

mainVars == <<tabla, maestro, seed, pc, df, species_col, master, result, found, draws,
              no_match, written, out_file, no_match_file, run, first_out>>

normVars == <<raw, norm1, norm2, npc>>

-----------------------------------------------------------------------------
(* Characters and text                                                     *)

\* The characters of the model in ascending code point order.
CodePoints ==
    << "\t", "\n", " ", "(", ")", "-", ".", "/",
       "0", "1", "2", "3", "4", "5", "6", "7", "8", "9",
       "A", "B", "C", "D", "E", "F", "G", "H", "I", "J", "K", "L", "M",
       "N", "O", "P", "Q", "R", "S", "T", "U", "V", "W", "X", "Y", "Z",
       "_",
       "a", "b", "c", "d", "e", "f", "g", "h", "i", "j", "k", "l", "m",
       "n", "o", "p", "q", "r", "s", "t", "u", "v", "w", "x", "y", "z" >>

OrdTable ==
    [c \in {CodePoints[i] : i \in 1..Len(CodePoints)} |->
        CHOOSE i \in 1..Len(CodePoints) : CodePoints[i] = c]

\* ord(c), up to the gaps between the characters of the model.
Ord(c) == OrdTable[c]

\* Python's < on str: lexicographic on code points.
RECURSIVE StrLess(_, _)
StrLess(a, b) ==
    IF b = <<>> THEN FALSE
    ELSE IF a = <<>> THEN TRUE
    ELSE IF Head(a) = Head(b) THEN StrLess(Tail(a), Tail(b))
    ELSE Ord(Head(a)) < Ord(Head(b))

\* pandas' missing value.
NaN == << "<NaN>" >>

IsNa(x) == x = NaN

\* What \s matches.
Whitespace == {" ", "\t", "\n"}

Upper == << "A", "B", "C", "D", "E", "F", "G", "H", "I", "J", "K", "L", "M",
            "N", "O", "P", "Q", "R", "S", "T", "U", "V", "W", "X", "Y", "Z" >>

Lower == << "a", "b", "c", "d", "e", "f", "g", "h", "i", "j", "k", "l", "m",
            "n", "o", "p", "q", "r", "s", "t", "u", "v", "w", "x", "y", "z" >>

FoldTable ==
    [c \in {CodePoints[i] : i \in 1..Len(CodePoints)} |->
        IF \E i \in 1..Len(Upper) : Upper[i] = c
        THEN Lower[CHOOSE i \in 1..Len(Upper) : Upper[i] = c]
        ELSE c]

CasefoldChar(c) == FoldTable[c]

\* str.casefold
casefold(s) == [i \in 1..Len(s) |-> CasefoldChar(s[i])]

\* str.strip
RECURSIVE lstrip(_)
lstrip(s) ==
    IF s # <<>> /\ Head(s) \in Whitespace THEN lstrip(Tail(s)) ELSE s

RECURSIVE rstrip(_)
rstrip(s) ==
    IF s # <<>> /\ s[Len(s)] \in Whitespace
    THEN rstrip(SubSeq(s, 1, Len(s) - 1))
    ELSE s

strip(s) == rstrip(lstrip(s))

\* The first index from i on that holds no whitespace (Len(s) + 1 if none):
\* where a greedy \s* started at i ends.
RECURSIVE WsRunEnd(_, _)
WsRunEnd(s, i) ==
    IF i <= Len(s) /\ s[i] \in Whitespace THEN WsRunEnd(s, i + 1) ELSE i

\* re.sub(r"\s+", " ", s)
RECURSIVE CollapseWs(_)
CollapseWs(s) ==
    IF s = <<>> THEN <<>>
    ELSE IF Head(s) \in Whitespace
         THEN <<" ">> \o CollapseWs(SubSeq(s, WsRunEnd(s, 1), Len(s)))
         ELSE <<Head(s)>> \o CollapseWs(Tail(s))

\* A match of \s*\(.*?\)\s* that starts at i: the index after it, 0 if there
\* is none.  The greedy \s* must stop right before a "(" ; the lazy .*? runs
\* to the first ")" and, having no DOTALL flag, cannot cross a newline.
ParenMatchEnd(s, i) ==
    LET j == WsRunEnd(s, i) IN
    IF j > Len(s) \/ s[j] # "(" THEN 0
    ELSE LET closes == {k \in (j + 1)..Len(s) : s[k] = ")"} IN
         IF closes = {} THEN 0
         ELSE LET k == CHOOSE k \in closes : \A m \in closes : k <= m IN
              IF \E m \in (j + 1)..(k - 1) : s[m] = "\n" THEN 0
              ELSE WsRunEnd(s, k + 1)

\* re.sub(r"\s*\(.*?\)\s*", " ", s) from index i on: leftmost matches, not
\* overlapping.
RECURSIVE SubParens(_, _)
SubParens(s, i) ==
    IF i > Len(s) THEN <<>>
    ELSE LET e == ParenMatchEnd(s, i) IN
         IF e # 0 THEN <<" ">> \o SubParens(s, e)
         ELSE <<s[i]>> \o SubParens(s, i + 1)

normalize_species(name) ==
    IF IsNa(name) THEN <<>>
    ELSE casefold(strip(CollapseWs(SubParens(name, 1))))

-----------------------------------------------------------------------------
(* find_col                                                                *)

KeyError == << "<KeyError>" >>

\* The entry of norm_map for header c.
HeaderNorm(c) == casefold(strip(CollapseWs(c)))

\* The header find_col returns when it looks the candidates up in priority
\* order instead of walking the headers.
find_col_by_priority(cols, candidates) ==
    LET hit(t) == {i \in 1..Len(cols) : HeaderNorm(cols[i]) = casefold(t)}
        cs == {j \in 1..Len(candidates) : hit(candidates[j]) # {}}
    IN IF cs = {} THEN KeyError
       ELSE LET j == CHOOSE j \in cs : \A m \in cs : j <= m
                h == hit(candidates[j])
            IN cols[CHOOSE i \in h : \A m \in h : i <= m]

find_col(cols, candidates) ==
    LET targets == {casefold(candidates[j]) : j \in 1..Len(candidates)}
        hits == {i \in 1..Len(cols) : HeaderNorm(cols[i]) \in targets}
    IN IF hits = {} THEN KeyError
       ELSE cols[CHOOSE i \in hits : \A m \in hits : i <= m]

-----------------------------------------------------------------------------
(* Tables (pandas DataFrame with unique column labels)                     *)

\* The position of column name in t.
ColIdx(t, name) == CHOOSE i \in 1..Len(t.cols) : t.cols[i] = name

HasCol(t, name) == \E i \in 1..Len(t.cols) : t.cols[i] = name

\* t[name]
GetCol(t, name) == [r \in 1..Len(t.rows) |-> t.rows[r][ColIdx(t, name)]]

\* t[name] = vals: an existing column is overwritten in place, a new one
\* is appended.
SetCol(t, name, vals) ==
    IF HasCol(t, name)
    THEN [cols |-> t.cols,
          rows |-> [r \in 1..Len(t.rows) |->
                       [t.rows[r] EXCEPT ![ColIdx(t, name)] = vals[r]]]]
    ELSE [cols |-> Append(t.cols, name),
          rows |-> [r \in 1..Len(t.rows) |-> Append(t.rows[r], vals[r])]]

\* t.drop(columns=[name], errors="ignore")
DropCol(t, name) ==
    IF ~HasCol(t, name) THEN t
    ELSE LET c == ColIdx(t, name)
             cut(s) == SubSeq(s, 1, c - 1) \o SubSeq(s, c + 1, Len(s))
         IN [cols |-> cut(t.cols),
             rows |-> [r \in 1..Len(t.rows) |-> cut(t.rows[r])]]

\* The elements of a set of integers in ascending order.
RECURSIVE Ascending(_)
Ascending(S) ==
    IF S = {} THEN <<>>
    ELSE LET m == CHOOSE m \in S : \A x \in S : m <= x
         IN <<m>> \o Ascending(S \ {m})

\* sorted() of a set of str.
RECURSIVE SortedStrs(_)
SortedStrs(S) ==
    IF S = {} THEN <<>>
    ELSE LET m == CHOOSE m \in S : \A x \in S : x = m \/ StrLess(m, x)
         IN <<m>> \o SortedStrs(S \ {m})

-----------------------------------------------------------------------------
(* Floats: integers in units of 1e-7; <<>> is NaN, <<v>> a number          *)

\* The number of digits f"{x:.6f}" prints after the point.
FmtDigits == 6

Digits == << "0", "1", "2", "3", "4", "5", "6", "7", "8", "9" >>

IsDigit(c) == \E i \in 1..Len(Digits) : Digits[i] = c

DigitVal(c) == (CHOOSE i \in 1..Len(Digits) : Digits[i] = c) - 1

RECURSIVE Pow10(_)
Pow10(n) == IF n = 0 THEN 1 ELSE 10 * Pow10(n - 1)

RECURSIVE NatVal(_)
NatVal(ds) ==
    IF ds = <<>> THEN 0
    ELSE 10 * NatVal(SubSeq(ds, 1, Len(ds) - 1)) + DigitVal(ds[Len(ds)])

\* pd.to_numeric(cell, errors="coerce") of one cell: [-]digits[.digits]
\* is a number (at most FmtDigits + 1 fractional digits in this model),
\* anything else is NaN.
to_numeric(cell) ==
    IF IsNa(cell) \/ cell = <<>> THEN <<>>
    ELSE LET neg == Head(cell) = "-"
             body == IF neg THEN Tail(cell) ELSE cell
             dots == {i \in 1..Len(body) : body[i] = "."}
             dot == IF dots = {} THEN Len(body) + 1
                    ELSE CHOOSE i \in dots : \A m \in dots : i <= m
             ip == SubSeq(body, 1, dot - 1)
             fp == SubSeq(body, dot + 1, Len(body))
             ok == /\ Cardinality(dots) <= 1
                   /\ Len(ip) + Len(fp) > 0
                   /\ Len(fp) <= FmtDigits + 1
                   /\ \A i \in 1..Len(ip) : IsDigit(ip[i])
                   /\ \A i \in 1..Len(fp) : IsDigit(fp[i])
             mag == NatVal(ip) * Pow10(FmtDigits + 1)
                    + NatVal(fp) * Pow10(FmtDigits + 1 - Len(fp))
         IN IF ~ok THEN <<>> ELSE << IF neg THEN 0 - mag ELSE mag >>

RECURSIVE NatStr(_)
NatStr(n) ==
    IF n < 10 THEN << Digits[n + 1] >>
    ELSE NatStr(n \div 10) \o << Digits[(n % 10) + 1] >>

\* n as exactly w digits.
RECURSIVE FixedDigits(_, _)
FixedDigits(n, w) ==
    IF w = 0 THEN <<>>
    ELSE FixedDigits(n \div 10, w - 1) \o << Digits[(n % 10) + 1] >>

\* f"{float(x):.6f}" of a number: rounded to FmtDigits digits, the sign
\* kept ("-0.000000" for a small negative number).  A seventh digit of 5 is
\* rounded by the binary value of the float; no input of the model has one.
Fmt6(v) ==
    LET m == IF v < 0 THEN 0 - v ELSE v
        r == (m + 5) \div 10
    IN (IF v < 0 THEN <<"-">> ELSE <<>>)
       \o NatStr(r \div Pow10(FmtDigits)) \o <<".">>
       \o FixedDigits(r % Pow10(FmtDigits), FmtDigits)

\* The lambda of lines 108-109.
FmtCell(x) == IF x = <<>> THEN <<>> ELSE Fmt6(x[1])

\* fmt_pair printing the digits of the float as they are.
fmt_pair_unrounded(a, b) ==
    LET full(v) == (IF v < 0 THEN <<"-">> ELSE <<>>)
                   \o NatStr((IF v < 0 THEN 0 - v ELSE v) \div Pow10(FmtDigits + 1))
                   \o <<".">>
                   \o FixedDigits((IF v < 0 THEN 0 - v ELSE v) % Pow10(FmtDigits + 1),
                                  FmtDigits + 1)
    IN IF a = <<>> \/ b = <<>> THEN <<>>
       ELSE full(a[1]) \o <<",">> \o full(b[1])

\* fmt_pair
fmt_pair(a, b) ==
    IF a = <<>> \/ b = <<>> THEN <<>>
    ELSE Fmt6(a[1]) \o <<",">> \o Fmt6(b[1])

-----------------------------------------------------------------------------
(* load_master                                                             *)

\* The candidate lists of lines 51-53 and 132.
NombreCandidates ==
    << <<"n","o","m","b","r","e"," ","d","e"," ","a","v","e">>,
       <<"n","o","m","b","r","e","_","d","e","_","a","v","e">>,
       <<"n","o","m","b","r","e">>,
       <<"e","s","p","e","c","i","e">>,
       <<"s","p","e","c","i","e","s">> >>

LatCandidates ==
    << <<"l","a","t","i","t","u","d">>, <<"l","a","t">> >>

LonCandidates ==
    << <<"l","o","n","g","i","t","u","d">>, <<"l","o","n">>,
       <<"l","o","n","g">>, <<"l","o","p","n","o","n","g">> >>

SpeciesCandidates ==
    << <<"s","p","e","c","i","e","s">>,
       <<"e","s","p","e","c","i","e">>,
       <<"n","o","m","b","r","e"," ","d","e"," ","a","v","e">>,
       <<"n","o","m","b","r","e">> >>

\* The value of master: a function from normalized names to non-empty
\* lists of <<lat, lon>>.
EmptyIndex == [name \in {} |-> <<>>]

\* One find_col call, as logged in found.
Call(cols, candidates) ==
    [cols |-> cols, candidates |-> candidates, ret |-> find_col(cols, candidates)]

\* load_master(master_path) on the table dfm read from that path:
\* [err |-> whether a find_col raised, index |-> the master returned,
\*  calls |-> the find_col calls made].
load_master(dfm) ==
    LET c1 == Call(dfm.cols, NombreCandidates)
        c2 == Call(dfm.cols, LatCandidates)
        c3 == Call(dfm.cols, LonCandidates)
        col_nombre == c1.ret
        col_lat == c2.ret
        col_lon == c3.ret
    IN IF col_nombre = KeyError
       THEN [err |-> TRUE, index |-> EmptyIndex, calls |-> <<c1>>]
       ELSE IF col_lat = KeyError
       THEN [err |-> TRUE, index |-> EmptyIndex, calls |-> <<c1, c2>>]
       ELSE IF col_lon = KeyError
       THEN [err |-> TRUE, index |-> EmptyIndex, calls |-> <<c1, c2, c3>>]
       ELSE LET n == Len(dfm.rows)
                nombre_norm == [r \in 1..n |->
                    normalize_species(GetCol(dfm, col_nombre)[r])]
                lat == [r \in 1..n |-> to_numeric(GetCol(dfm, col_lat)[r])]
                lon == [r \in 1..n |-> to_numeric(GetCol(dfm, col_lon)[r])]
                \* dropna(subset=["_nombre_norm", "_lat", "_lon"]): a
                \* normalized name is a str, never NaN
                kept == {r \in 1..n : /\ ~IsNa(nombre_norm[r])
                                      /\ lat[r] # <<>>
                                      /\ lon[r] # <<>>}
                names == {nombre_norm[r] : r \in kept}
                sub(name) == Ascending({r \in kept : nombre_norm[r] = name})
            IN [err |-> FALSE,
                calls |-> <<c1, c2, c3>>,
                index |-> [name \in names |->
                    [i \in 1..Len(sub(name)) |->
                        << lat[sub(name)[i]][1], lon[sub(name)[i]][1] >>]]]

-----------------------------------------------------------------------------
(* The random generator.  numpy's bit generator is abstracted to a small   *)
(* linear congruential generator: what the script relies on is that its    *)
(* state is set by the seed alone and that every index returned advances   *)
(* it.                                                                     *)

\* np.random.default_rng() with no seed: fresh entropy in every execution.
default_rng_unseeded(sd) == (11 * run) % 64

\* np.random.default_rng(seed)
default_rng(sd) == sd % 64

RngAdvance(s) == (5 * s + 3) % 64

\* rng.integers(0, K, size=N) from state s: [vals |-> N indices in 0..K-1,
\* rng |-> the state after].  rng.integers(0, K) is the case N = 1.
RECURSIVE integers(_, _, _)
integers(s, K, N) ==
    IF N = 0 THEN [vals |-> <<>>, rng |-> s]
    ELSE LET s1 == RngAdvance(s)
             rest == integers(s1, K, N - 1)
         IN [vals |-> << (s1 \div 8) % K >> \o rest.vals, rng |-> rest.rng]

-----------------------------------------------------------------------------
(* assign_coords                                                           *)

SpeciesNormCol == <<"_","s","p","e","c","i","e","s","_","n","o","r","m">>
LatCol == <<"l","a","t">>
LonCol == <<"l","o","p","n","o","n","g">>
LatLonCol == <<"l","a","t","_","l","o","n">>

\* The keys of groupby(...).groups in first-appearance order (sort=False).
RECURSIVE GroupKeysUnsorted(_)
GroupKeysUnsorted(col) ==
    IF Len(col) = 0 THEN <<>>
    ELSE LET front == GroupKeysUnsorted(SubSeq(col, 1, Len(col) - 1))
             last == col[Len(col)]
         IN IF \E i \in 1..Len(front) : front[i] = last THEN front
            ELSE Append(front, last)

\* The keys of out.groupby("_species_norm").groups, in iteration order:
\* groupby sorts the keys.
GroupKeys(col) == SortedStrs({col[r] : r \in 1..Len(col)})

\* lat, lon = coords_list[choice] with the two swapped.
PickCoordsSwapped(coords_list, choice) ==
    << coords_list[choice + 1][2], coords_list[choice + 1][1] >>

\* lat, lon = coords_list[choice]
PickCoords(coords_list, choice) == coords_list[choice + 1]

\* The body of the loop of lines 82-97 for the keys still to visit.
\* st = [lat, lon: the float columns, rng: the generator, draws: the log].
RECURSIVE AssignLoop(_, _, _, _)
AssignLoop(keys, col, index, st) ==
    IF keys = <<>> THEN st
    ELSE LET sp == Head(keys)
             idx_list == Ascending({r \in 1..Len(col) : col[r] = sp})
             coords_list == IF sp \in DOMAIN index THEN index[sp] ELSE <<>>
         IN IF coords_list = <<>>
            THEN AssignLoop(Tail(keys), col, index, st)
            ELSE LET K == Len(coords_list)
                     N == Len(idx_list)
                     d == integers(st.rng, K, N)
                     pos(r) == CHOOSE i \in 1..N : idx_list[i] = r
                     chosen(r) == PickCoords(coords_list, d.vals[pos(r)])
                     inGroup(r) == \E i \in 1..N : idx_list[i] = r
                 IN AssignLoop(Tail(keys), col, index,
                      [lat |-> [r \in 1..Len(col) |->
                           IF inGroup(r) THEN << chosen(r)[1] >> ELSE st.lat[r]],
                       lon |-> [r \in 1..Len(col) |->
                           IF inGroup(r) THEN << chosen(r)[2] >> ELSE st.lon[r]],
                       rng |-> d.rng,
                       draws |-> st.draws \o
                           [i \in 1..N |-> [row |-> idx_list[i], K |-> K,
                                            choice |-> d.vals[i]]]])

\* assign_coords(df, species_col, master, rng):
\* [out |-> the table returned, draws |-> the indices drawn, in order].
assign_coords(t, col, index, rng) ==
    LET n == Len(t.rows)
        nan == [r \in 1..n |-> NaN]
        out1 == SetCol(t, SpeciesNormCol,
                       [r \in 1..n |-> normalize_species(GetCol(t, col)[r])])
        out2 == SetCol(SetCol(out1, LatCol, nan), LonCol, nan)
        norms == GetCol(out2, SpeciesNormCol)
        st == AssignLoop(GroupKeys(norms), norms, index,
                         [lat |-> [r \in 1..n |-> <<>>],
                          lon |-> [r \in 1..n |-> <<>>],
                          rng |-> rng, draws |-> <<>>])
        out3 == SetCol(out2, LatLonCol,
                       [r \in 1..n |-> fmt_pair(st.lat[r], st.lon[r])])
        out4 == SetCol(out3, LatCol, [r \in 1..n |-> FmtCell(st.lat[r])])
        out5 == SetCol(out4, LonCol, [r \in 1..n |-> FmtCell(st.lon[r])])
    IN [out |-> DropCol(out5, SpeciesNormCol), draws |-> st.draws]

-----------------------------------------------------------------------------
(* Inputs                                                                  *)

MaxRows == 3      \* rows of the observation table
MaxMaster == 2    \* rows of the master table
MaxCols == 3      \* columns of a table whose header varies
MaxLen == 4       \* characters of a raw name handed to normalize_species

\* --seed: the default of line 123.
Seeds == {20251003}

SeqsUpTo(S, n) == UNION {[1..k -> S] : k \in 0..n}

\* Header rows: read_csv keeps column labels unique.
Headers(S, n) ==
    {h \in SeqsUpTo(S, n) : \A i, j \in 1..Len(h) : h[i] = h[j] => i = j}

EmptyTable == [cols |-> <<>>, rows |-> <<>>]

\* Species cells of the observation table.
ObsNames ==
    { NaN,
      <<"a">>,
      <<"B"," ","(","x",")">> }

IdCol == <<"i","d">>
SpeciesHdr == <<"S","p","e","c","i","e","s">>

\* The observation table with the plain header and the given species cells.
ObsTable(names) ==
    [cols |-> <<IdCol, SpeciesHdr>>,
     rows |-> [r \in 1..Len(names) |-> << <<"r", Digits[r + 1]>>, names[r] >>]]

\* Rows of the master table: name, latitude, longitude.
MasterRowKinds ==
    { << <<"a">>, <<"1","0",".","5">>, <<"-","2","0",".","0","0","0","0","0","0","4">> >>,
      << <<"A"," ","(","x",")">>, <<"1","1">>, <<"2","1",".","0","0","0","0","0","0","6">> >>,
      << <<"b">>, <<"1","2">>, <<"2","2">> >>,
      << NaN, <<"1","3">>, <<"2","3">> >> }

MasterHdr ==
    << <<"N","o","m","b","r","e"," ","d","e"," ","a","v","e">>,
       <<"L","a","t","i","t","u","d">>,
       <<"L","o","p","n","o","n","g">> >>

MasterTable(rows) == [cols |-> MasterHdr, rows |-> rows]

IsCandidate(h, candidates) ==
    \E j \in 1..Len(candidates) : HeaderNorm(h) = casefold(candidates[j])

\* Headers an observation table may carry.
ObsHeaderNames ==
    { IdCol,
      <<" ","S","p","e","c","i","e","s">>,
      <<"N","O","M","B","R","E">>,
      <<"l","a","t">>,
      <<"_","s","p","e","c","i","e","s","_","n","o","r","m">> }

\* The cell of row r under header h in a table whose header varies.
ObsCell(h, r) ==
    IF IsCandidate(h, SpeciesCandidates)
    THEN (IF r = 1 THEN <<"a">> ELSE <<"B"," ","(","x",")">>)
    ELSE <<"v", Digits[r + 1]>>

ObsTableWith(cols) ==
    [cols |-> cols,
     rows |-> [r \in 1..2 |-> [c \in 1..Len(cols) |-> ObsCell(cols[c], r)]]]

\* Headers a master table may carry.
MasterHeaderNames ==
    { <<"N","o","m","b","r","e">>,
      <<"S","P","E","C","I","E","S">>,
      <<"L","a","t">>,
      <<"l","o","n">>,
      <<"L","o","p","n","o","n","g"," ">>,
      <<"x">> }

\* The rows of a master table whose header varies: name, latitude,
\* longitude.
MasterFixedRows ==
    << << <<"a">>, <<"1","0",".","5">>, <<"2","0">> >>,
       << <<"b">>, <<"N","/","A">>, <<"2","4">> >>,
       << <<"(","x",")">>, <<"1","5">>, NaN >>,
       << <<"b">>, <<"1","2">>, <<"2","2">> >> >>

MasterCell(h, r) ==
    IF IsCandidate(h, NombreCandidates) THEN MasterFixedRows[r][1]
    ELSE IF IsCandidate(h, LatCandidates) THEN MasterFixedRows[r][2]
    ELSE IF IsCandidate(h, LonCandidates) THEN MasterFixedRows[r][3]
    ELSE <<"x">>

MasterTableWith(cols) ==
    [cols |-> cols,
     rows |-> [r \in 1..Len(MasterFixedRows) |->
                  [c \in 1..Len(cols) |-> MasterCell(cols[c], r)]]]

-----------------------------------------------------------------------------
(* main                                                                    *)

\* The state of an execution of main before its first statement.
Fresh ==
    /\ pc = "read"
    /\ df = EmptyTable
    /\ species_col = <<>>
    /\ master = EmptyIndex
    /\ result = EmptyTable
    /\ found = <<>>
    /\ draws = <<>>
    /\ no_match = <<>>
    /\ written = {}

NormIdle == raw = <<>> /\ norm1 = <<>> /\ norm2 = <<>> /\ npc = "idle"

\* Tables with plain headers and varying rows.
InitData ==
    /\ tabla \in {ObsTable(names) : names \in SeqsUpTo(ObsNames, MaxRows)}
    /\ maestro \in {MasterTable(rows) : rows \in SeqsUpTo(MasterRowKinds, MaxMaster)}
    /\ seed \in Seeds

\* An observation table whose header varies.
InitObsCols ==
    /\ tabla \in {ObsTableWith(cols) : cols \in Headers(ObsHeaderNames, MaxCols)}
    /\ maestro = MasterTableWith(<< <<"N","o","m","b","r","e">>, <<"L","a","t">>,
                                    <<"l","o","n">> >>)
    /\ seed = 1

\* A master table whose header varies.
InitMasterCols ==
    /\ tabla = ObsTable(<< <<"B"," ","(","x",")">>, <<"a">>, NaN >>)
    /\ maestro \in {MasterTableWith(cols) : cols \in Headers(MasterHeaderNames, MaxCols)}
    /\ seed = 1

Init ==
    /\ InitData \/ InitObsCols \/ InitMasterCols
    /\ Fresh
    /\ out_file = EmptyTable
    /\ no_match_file = <<>>
    /\ run = 1
    /\ first_out = EmptyTable
    /\ NormIdle

\* Lines 131-132 with the enriched table opened for writing first.
ReadTableOpeningOut ==
    /\ pc = "read"
    /\ df' = tabla
    /\ LET c == Call(tabla.cols, SpeciesCandidates) IN
          /\ species_col' = c.ret
          /\ found' = Append(found, c)
          /\ pc' = IF c.ret = KeyError THEN "error" ELSE "load"
    /\ written' = written \cup {"out"}
    /\ out_file' = EmptyTable
    /\ UNCHANGED <<tabla, maestro, seed, master, result, draws, no_match,
                   no_match_file, run, first_out>>
    /\ UNCHANGED normVars

\* Lines 131-132: df = pd.read_csv(tabla_path); species_col = find_col(...)
ReadTable ==
    /\ pc = "read"
    /\ df' = tabla
    /\ LET c == Call(tabla.cols, SpeciesCandidates) IN
          /\ species_col' = c.ret
          /\ found' = Append(found, c)
          /\ pc' = IF c.ret = KeyError THEN "error" ELSE "load"
    /\ UNCHANGED <<tabla, maestro, seed, master, result, draws, no_match,
                   written, out_file, no_match_file, run, first_out>>
    /\ UNCHANGED normVars

\* Line 134: master = load_master(maestro_path)
LoadMaster ==
    /\ pc = "load"
    /\ LET m == load_master(maestro) IN
          /\ master' = m.index
          /\ found' = found \o m.calls
          /\ pc' = IF m.err THEN "error" ELSE "assign"
    /\ UNCHANGED <<tabla, maestro, seed, df, species_col, result, draws,
                   no_match, written, out_file, no_match_file, run, first_out>>
    /\ UNCHANGED normVars

\* Lines 136-137: rng = default_rng(args.seed); result = assign_coords(...)
AssignCoords ==
    /\ pc = "assign"
    /\ LET a == assign_coords(df, species_col, master, default_rng(seed)) IN
          /\ result' = a.out
          /\ draws' = a.draws
    /\ pc' = "report"
    /\ UNCHANGED <<tabla, maestro, seed, df, species_col, master, found,
                   no_match, written, out_file, no_match_file, run, first_out>>
    /\ UNCHANGED normVars

\* The names line 141 keeps, with the test "s and" left out.
NoMatchNamesUnfiltered(species_in_table, index) ==
    {s \in species_in_table : s \notin DOMAIN index}

\* The names line 141 keeps: [s for s in species_in_table if s and s not in master]
NoMatchNames(species_in_table, index) ==
    {s \in species_in_table : s # <<>> /\ s \notin DOMAIN index}

\* Lines 139-143: the no-match report
Report ==
    /\ pc = "report"
    /\ LET norms == [r \in 1..Len(df.rows) |->
                        normalize_species(GetCol(df, species_col)[r])]
           species_in_table == {norms[r] : r \in 1..Len(norms)}
           nm == SortedStrs(NoMatchNames(species_in_table, master))
       IN /\ df' = SetCol(df, SpeciesNormCol, norms)
          /\ no_match' = nm
          /\ IF nm # <<>>
             THEN /\ written' = written \cup {"no_match"}
                  /\ no_match_file' = nm
             ELSE UNCHANGED <<written, no_match_file>>
    /\ pc' = "write"
    /\ UNCHANGED <<tabla, maestro, seed, species_col, master, result, found,
                   draws, out_file, run, first_out>>
    /\ UNCHANGED normVars

\* Line 145: result.to_csv(out_path), then the summary
WriteOut ==
    /\ pc = "write"
    /\ out_file' = result
    /\ written' = written \cup {"out"}
    /\ pc' = "done"
    /\ UNCHANGED <<tabla, maestro, seed, df, species_col, master, result,
                   found, draws, no_match, no_match_file, run, first_out>>
    /\ UNCHANGED normVars

\* The script is run again with the same arguments on the same two inputs;
\* the files of the first execution are still there.
Rerun ==
    /\ pc = "done"
    /\ run = 1
    /\ run' = 2
    /\ first_out' = out_file
    /\ pc' = "read"
    /\ df' = EmptyTable
    /\ species_col' = <<>>
    /\ master' = EmptyIndex
    /\ result' = EmptyTable
    /\ found' = <<>>
    /\ draws' = <<>>
    /\ no_match' = <<>>
    /\ written' = {}
    /\ UNCHANGED <<tabla, maestro, seed, out_file, no_match_file>>
    /\ UNCHANGED normVars

Next ==
    \/ ReadTable
    \/ LoadMaster
    \/ AssignCoords
    \/ Report
    \/ WriteOut
    \/ Rerun

Spec == Init /\ [][Next]_vars

-----------------------------------------------------------------------------
(* normalize_species on its own                                            *)

NormAlphabet == {"a", "B", "(", ")", " ", "\t", "\n"}

InitNorm ==
    /\ raw \in SeqsUpTo(NormAlphabet, MaxLen)
    /\ norm1 = <<>>
    /\ norm2 = <<>>
    /\ npc = "raw"
    /\ tabla = EmptyTable
    /\ maestro = EmptyTable
    /\ seed = 1
    /\ Fresh
    /\ out_file = EmptyTable
    /\ no_match_file = <<>>
    /\ run = 1
    /\ first_out = EmptyTable

\* s = normalize_species(raw)
NormalizeOnce ==
    /\ npc = "raw"
    /\ norm1' = normalize_species(raw)
    /\ npc' = "once"
    /\ UNCHANGED <<raw, norm2>>
    /\ UNCHANGED mainVars

\* normalize_species(s)
NormalizeTwice ==
    /\ npc = "once"
    /\ norm2' = normalize_species(norm1)
    /\ npc' = "twice"
    /\ UNCHANGED <<raw, norm1>>
    /\ UNCHANGED mainVars

NextNorm ==
    \/ NormalizeOnce
    \/ NormalizeTwice

SpecNorm == InitNorm /\ [][NextNorm]_vars

-----------------------------------------------------------------------------
(* Properties                                                              *)

\* result holds what assign_coords returned.
Assigned == pc \in {"report", "write", "done"}

\* no_match holds the report.
Reported == pc \in {"write", "done"}

\* master holds what load_master returned.
Loaded == pc \in {"assign", "report", "write", "done"}

Cell(t, r, name) == t.rows[r][ColIdx(t, name)]

\* The normalized name of row r of the observation table.
RowNorm(r) == normalize_species(Cell(tabla, r, species_col))

NamesInTable == {RowNorm(r) : r \in 1..Len(tabla.rows)}

\* The rows whose normalized name is a key of the master index.
MatchedRows == {r \in 1..Len(tabla.rows) : RowNorm(r) \in DOMAIN master}

Elems(q) == {q[i] : i \in 1..Len(q)}

StrictlyAscending(q) == \A i \in 1..(Len(q) - 1) : StrLess(q[i], q[i + 1])

AllEmpty(r) ==
    /\ Cell(result, r, LatCol) = <<>>
    /\ Cell(result, r, LonCol) = <<>>
    /\ Cell(result, r, LatLonCol) = <<>>

\* C1: after assign_coords every output row has either lat, lopnong and
\* lat_lon all empty, or lat and lopnong both non-empty and lat_lon equal to
\* lat + "," + lopnong.
C1_DerivedFieldsConsistent ==
    Assigned =>
        \A r \in 1..Len(result.rows) :
            \/ AllEmpty(r)
            \/ /\ Cell(result, r, LatCol) # <<>>
               /\ Cell(result, r, LonCol) # <<>>
               /\ Cell(result, r, LatLonCol) =
                      Cell(result, r, LatCol) \o <<",">> \o Cell(result, r, LonCol)

\* A table with a row that got coordinates (one of them negative, one
\* rounded) and a row that got none.
C1_Witness ==
    /\ Assigned
    /\ \E r \in 1..Len(result.rows) : AllEmpty(r)
    /\ \E r \in 1..Len(result.rows) :
          /\ Cell(result, r, LatLonCol) # <<>>
          /\ Head(Cell(result, r, LonCol)) = "-"
    /\ \E r \in 1..Len(result.rows) :
          Cell(result, r, LonCol) = <<"2","1",".","0","0","0","0","0","1">>

\* C2: with K the size of the candidate list of the row's normalized name
\* (0 when the name is no key), a row with K = 0 has the three fields empty
\* and a row with K >= 1 carries (the 6-digit rendering of) one of the K
\* candidate pairs of its own species.
C2_AssignedFromCandidates ==
    Assigned =>
        \A r \in 1..Len(result.rows) :
            LET sp == RowNorm(r)
                K == IF sp \in DOMAIN master THEN Len(master[sp]) ELSE 0
            IN IF K = 0 THEN AllEmpty(r)
               ELSE \E j \in 1..K :
                       /\ Cell(result, r, LatCol) = Fmt6(master[sp][j][1])
                       /\ Cell(result, r, LonCol) = Fmt6(master[sp][j][2])

\* A species with two candidates carried by two rows that got different
\* candidates (N > 1), beside a row of a species with no candidate.
C2_Witness ==
    /\ Assigned
    /\ \E r1, r2 \in 1..Len(result.rows) :
          /\ r1 # r2
          /\ RowNorm(r1) = RowNorm(r2)
          /\ RowNorm(r1) \in DOMAIN master
          /\ Len(master[RowNorm(r1)]) = 2
          /\ Cell(result, r1, LatCol) # Cell(result, r2, LatCol)
    /\ \E r \in 1..Len(result.rows) : RowNorm(r) \notin DOMAIN master

\* C3 as claimed: the report is the set of ALL distinct normalized names of
\* the table minus the keys of the index, ascending, without duplicates, and
\* the file is written only when that set is not empty.
C3_ReportAllNames ==
    Reported =>
        /\ Elems(no_match) = NamesInTable \ DOMAIN master
        /\ StrictlyAscending(no_match)
        /\ ("no_match" \in written) <=> (NamesInTable \ DOMAIN master # {})

\* C3 amended: the report is the set of distinct NON-EMPTY normalized names
\* of the table minus the keys of the index, ascending, without duplicates;
\* the file is written, with that content, exactly when the set is not empty.
C3_ReportNonEmptyNames ==
    LET expected == {s \in NamesInTable : s # <<>>} \ DOMAIN master IN
    /\ Reported =>
          /\ Elems(no_match) = expected
          /\ StrictlyAscending(no_match)
          /\ ("no_match" \in written) <=> (expected # {})
          /\ "no_match" \in written => no_match_file = no_match
    /\ ~Reported => "no_match" \notin written

\* A table with a missing species cell, no empty key in the index, and
\* another unmatched name that is reported.
C3_Witness ==
    /\ Reported
    /\ <<>> \in NamesInTable
    /\ <<>> \notin DOMAIN master
    /\ "no_match" \in written
    /\ Len(no_match) = 2

\* C4 as claimed: the enriched table has the rows of the observation table
\* in the same order, every original column with every cell unchanged, and
\* nothing else but the three added columns, whatever the columns are named.
C4_OriginalColumnsUnchanged ==
    Assigned =>
        /\ Len(result.rows) = Len(tabla.rows)
        /\ result.cols = tabla.cols \o <<LatCol, LonCol, LatLonCol>>
        /\ \A c \in 1..Len(tabla.cols) :
              /\ HasCol(result, tabla.cols[c])
              /\ \A r \in 1..Len(tabla.rows) :
                    Cell(result, r, tabla.cols[c]) = tabla.rows[r][c]

C6_NoOutputOnKeyError ==
    pc = "error" => written = {}

\* The error raised for a column of the master table, after the species
\* column of the observation table was found.
C6_Witness ==
    /\ pc = "error"
    /\ species_col # KeyError
    /\ Len(found) = 3
    /\ found[3].ret = KeyError

\* C7 as claimed: normalize_species(normalize_species(s)) = normalize_species(s)
\* for every s built from letters, parentheses, spaces, tabs and newlines.
C7_Idempotent ==
    npc = "twice" => norm2 = norm1

\* C8 as claimed: the index is the grouping, by normalized name and in
\* source order, of the master rows with a non-empty normalized name and a
\* numeric latitude and longitude; the empty string is no key and every key
\* has a non-empty list.
C8_IndexOfValidRows ==
    Loaded =>
        LET name(r) == normalize_species(
                Cell(maestro, r, find_col(maestro.cols, NombreCandidates)))
            lat(r) == to_numeric(
                Cell(maestro, r, find_col(maestro.cols, LatCandidates)))
            lon(r) == to_numeric(
                Cell(maestro, r, find_col(maestro.cols, LonCandidates)))
            valid == {r \in 1..Len(maestro.rows) :
                         name(r) # <<>> /\ lat(r) # <<>> /\ lon(r) # <<>>}
            sub(k) == Ascending({r \in valid : name(r) = k})
        IN /\ DOMAIN master = {name(r) : r \in valid}
           /\ <<>> \notin DOMAIN master
           /\ \A k \in DOMAIN master :
                 /\ master[k] # <<>>
                 /\ master[k] = [i \in 1..Len(sub(k)) |->
                                    << lat(sub(k)[i])[1], lon(sub(k)[i])[1] >>]

\* The i-th index drawn is an index into the candidates of the species of
\* the row it is logged for, and that row carries the candidate it selects.
DrawUsed(i) ==
    LET d == draws[i]
        sp == RowNorm(d.row)
    IN /\ sp \in DOMAIN master
       /\ d.K = Len(master[sp])
       /\ d.choice \in 0..(d.K - 1)
       /\ Cell(result, d.row, LatCol) = Fmt6(master[sp][d.choice + 1][1])
       /\ Cell(result, d.row, LonCol) = Fmt6(master[sp][d.choice + 1][2])

\* C9 as claimed: one index is drawn per matched row, and the i-th index
\* drawn is the one used for the i-th matched row in table order.  Stated
\* for the indexes without the empty key, the ones C8 describes.
C9_DrawsInTableOrder ==
    (Assigned /\ <<>> \notin DOMAIN master) =>
        /\ Len(draws) = Cardinality(MatchedRows)
        /\ \A i \in 1..Len(draws) :
              /\ draws[i].row = Ascending(MatchedRows)[i]
              /\ DrawUsed(i)

\* C9 amended: one index is drawn per matched row, and the indices are
\* consumed species by species, the normalized names in ascending order,
\* and in table order among the rows of one species.
C9_DrawsInGroupOrder ==
    Assigned =>
        /\ Len(draws) = Cardinality(MatchedRows)
        /\ \A i \in 1..Len(draws) :
              /\ draws[i].row \in MatchedRows
              /\ DrawUsed(i)
        /\ \A i, j \in 1..Len(draws) :
              i < j =>
                 \/ StrLess(RowNorm(draws[i].row), RowNorm(draws[j].row))
                 \/ /\ RowNorm(draws[i].row) = RowNorm(draws[j].row)
                    /\ draws[i].row < draws[j].row

\* Three matched rows of two species, interleaved: the first index drawn
\* belongs to the second row.
C9_Witness ==
    /\ Assigned
    /\ Len(draws) = 3
    /\ draws[1].row = 2
    /\ draws[2].row = 1
    /\ draws[3].row = 3
    /\ <<>> \notin DOMAIN master

\* The headers of a find_col call that match some candidate.
Matching(e) ==
    {k \in 1..Len(e.cols) :
        \E j \in 1..Len(e.candidates) :
            casefold(strip(CollapseWs(e.cols[k]))) = casefold(e.candidates[j])}

\* C10: find_col returns the first header, in header order, whose
\* whitespace-collapsed, trimmed, case-folded form is the case-folded form of
\* some candidate, and raises the error exactly when no header matches.
C10_FirstMatchingHeader ==
    \A i \in 1..Len(found) :
        LET e == found[i]
            matching == Matching(e)
        IN /\ (e.ret = KeyError) <=> (matching = {})
           /\ matching # {} =>
                 \E k \in matching :
                    /\ e.ret = e.cols[k]
                    /\ \A m \in matching : k <= m

\* A header row in which the first matching header matches a candidate of
\* lower priority than a later header does.
C10_Witness ==
    \E i \in 1..Len(found) :
        LET e == found[i] IN
        \E k1, k2 \in Matching(e) :
            /\ k1 < k2
            /\ e.ret = e.cols[k1]
            /\ \E j1, j2 \in 1..Len(e.candidates) :
                  /\ j2 < j1
                  /\ HeaderNorm(e.cols[k1]) = casefold(e.candidates[j1])
                  /\ HeaderNorm(e.cols[k2]) = casefold(e.candidates[j2])

====
